---- MODULE Spec2Model ----
(***************************************************************************)
(* Model of the Twilio webhook worker in src/src/index.js: the fetch       *)
(* handler (method gate, form parse, per-sender rate limit in the KV       *)
(* store RATE_LIMITS, configuration check, subscriber lookup and insert    *)
(* in the Supabase table "subscribers", TwiML reply) and its two helpers   *)
(* createTwimlResponse and escapeXml.                                      *)
(*                                                                         *)
(* Text is modelled as sequences of one-character strings so that          *)
(* toUpperCase, trim, toString, parseInt and escapeXml are computed.       *)
(* Every handler invocation is cut at its awaits that touch a store: the   *)
(* code between two such awaits touches only locals and is one step.       *)
(***************************************************************************)
EXTENDS Integers, Sequences, FiniteSets, TLC

\* ------------------------------------------------------------------------
\* Bounds of the model (not program constants)
\* ------------------------------------------------------------------------

\* seconds of wall-clock time that pass in one Tick step
TickStep == 30

\* the count of arrivals at a sender's counter saturates here
MaxArrivals == 7

\* the count of passes of a sender's rate-limit step saturates here
MaxPassed == 6

\* the longest text given to escapeXml letter by letter
MaxTextLen == 3

\* the handler invocations that may be in flight at the same time
Reqs == {"r1", "r2"}

\* the phone numbers that send messages
Senders == {"+15550001", "+15550002"}

\* ------------------------------------------------------------------------
\* Program constants
\* ------------------------------------------------------------------------

\* index.js:40  if (currentCount >= 5)
RateLimitThreshold == 5

\* index.js:46  expirationTtl: 60
ExpirationTtl == 60

\* JavaScript null, for a text value and for a string-keyed value
NullSeq == <<"<null>">>
NullStr == "<null>"

\* ------------------------------------------------------------------------
\* Texts of index.js
\* ------------------------------------------------------------------------

\* line 9: 'Expected POST request'
MsgExpectedPost ==
    <<"E", "x", "p", "e", "c", "t", "e", "d", " ", "P", "O", "S", "T", " ",
      "r", "e", "q", "u", "e", "s", "t">>

\* line 21: 'Failed to parse form data'
MsgParseFailed ==
    <<"F", "a", "i", "l", "e", "d", " ", "t", "o", " ", "p", "a", "r", "s",
      "e", " ", "f", "o", "r", "m", " ", "d", "a", "t", "a">>

\* line 26: 'Missing required fields'
MsgMissingFields ==
    <<"M", "i", "s", "s", "i", "n", "g", " ", "r", "e", "q", "u", "i", "r",
      "e", "d", " ", "f", "i", "e", "l", "d", "s">>

\* line 55: 'Message rate limit exceeded. Please try again later.'
MsgRateLimited ==
    <<"M", "e", "s", "s", "a", "g", "e", " ", "r", "a", "t", "e", " ", "l",
      "i", "m", "i", "t", " ", "e", "x", "c", "e", "e", "d", "e", "d", ".",
      " ", "P", "l", "e", "a", "s", "e", " ", "t", "r", "y", " ", "a", "g",
      "a", "i", "n", " ", "l", "a", "t", "e", "r", ".">>

\* line 62: 'Server configuration error.'
MsgConfigError ==
    <<"S", "e", "r", "v", "e", "r", " ", "c", "o", "n", "f", "i", "g", "u",
      "r", "a", "t", "i", "o", "n", " ", "e", "r", "r", "o", "r", ".">>

\* line 86: 'There was a server error checking your status.'
MsgSelectError ==
    <<"T", "h", "e", "r", "e", " ", "w", "a", "s", " ", "a", " ", "s", "e",
      "r", "v", "e", "r", " ", "e", "r", "r", "o", "r", " ", "c", "h", "e",
      "c", "k", "i", "n", "g", " ", "y", "o", "u", "r", " ", "s", "t", "a",
      "t", "u", "s", ".">>

\* lines 95, 105: "Hey! You've already got the download for the app."
MsgAlready ==
    <<"H", "e", "y", "!", " ", "Y", "o", "u", "'", "v", "e", " ", "a", "l",
      "r", "e", "a", "d", "y", " ", "g", "o", "t", " ", "t", "h", "e", " ",
      "d", "o", "w", "n", "l", "o", "a", "d", " ", "f", "o", "r", " ", "t",
      "h", "e", " ", "a", "p", "p", ".">>

\* line 108: 'Sorry, there was an error subscribing you. Please try again.'
MsgInsertError ==
    <<"S", "o", "r", "r", "y", ",", " ", "t", "h", "e", "r", "e", " ", "w",
      "a", "s", " ", "a", "n", " ", "e", "r", "r", "o", "r", " ", "s", "u",
      "b", "s", "c", "r", "i", "b", "i", "n", "g", " ", "y", "o", "u", ".",
      " ", "P", "l", "e", "a", "s", "e", " ", "t", "r", "y", " ", "a", "g",
      "a", "i", "n", ".">>

\* line 111: "Thanks for subscribing! Here's the download link: https://ootd-website.vercel.app/"
MsgSubscribed ==
    <<"T", "h", "a", "n", "k", "s", " ", "f", "o", "r", " ", "s", "u", "b",
      "s", "c", "r", "i", "b", "i", "n", "g", "!", " ", "H", "e", "r", "e",
      "'", "s", " ", "t", "h", "e", " ", "d", "o", "w", "n", "l", "o", "a",
      "d", " ", "l", "i", "n", "k", ":", " ", "h", "t", "t", "p", "s", ":",
      "/", "/", "o", "o", "t", "d", "-", "w", "e", "b", "s", "i", "t", "e",
      ".", "v", "e", "r", "c", "e", "l", ".", "a", "p", "p", "/">>

\* line 127: 'Need help? Join our discord: https://discord.gg/erJWg63SdP'
MsgHelp ==
    <<"N", "e", "e", "d", " ", "h", "e", "l", "p", "?", " ", "J", "o", "i",
      "n", " ", "o", "u", "r", " ", "d", "i", "s", "c", "o", "r", "d", ":",
      " ", "h", "t", "t", "p", "s", ":", "/", "/", "d", "i", "s", "c", "o",
      "r", "d", ".", "g", "g", "/", "e", "r", "J", "W", "g", "6", "3", "S",
      "d", "P">>

\* line 131: 'Unknown command. Text FINDOOTD to subscribe or HELPOOTD for help.'
MsgUnknown ==
    <<"U", "n", "k", "n", "o", "w", "n", " ", "c", "o", "m", "m", "a", "n",
      "d", ".", " ", "T", "e", "x", "t", " ", "F", "I", "N", "D", "O", "O",
      "T", "D", " ", "t", "o", " ", "s", "u", "b", "s", "c", "r", "i", "b",
      "e", " ", "o", "r", " ", "H", "E", "L", "P", "O", "O", "T", "D", " ",
      "f", "o", "r", " ", "h", "e", "l", "p", ".">>

\* line 141: 'An unexpected error occurred. Please try again later.'
MsgUnexpected ==
    <<"A", "n", " ", "u", "n", "e", "x", "p", "e", "c", "t", "e", "d", " ",
      "e", "r", "r", "o", "r", " ", "o", "c", "c", "u", "r", "r", "e", "d",
      ".", " ", "P", "l", "e", "a", "s", "e", " ", "t", "r", "y", " ", "a",
      "g", "a", "i", "n", " ", "l", "a", "t", "e", "r", ".">>

\* lines 151-153: '<?xml version="1.0" encoding="UTF-8"?>\n\t<Response>\n\t\t<Message>'
TwimlPrefix ==
    <<"<", "?", "x", "m", "l", " ", "v", "e", "r", "s", "i", "o", "n", "=",
      "\"", "1", ".", "0", "\"", " ", "e", "n", "c", "o", "d", "i", "n", "g",
      "=", "\"", "U", "T", "F", "-", "8", "\"", "?", ">", "\n", "\t", "<",
      "R", "e", "s", "p", "o", "n", "s", "e", ">", "\n", "\t", "\t", "<",
      "M", "e", "s", "s", "a", "g", "e", ">">>

\* lines 153-154: '</Message>\n\t</Response>'
TwimlSuffix ==
    <<"<", "/", "M", "e", "s", "s", "a", "g", "e", ">", "\n", "\t", "<", "/",
      "R", "e", "s", "p", "o", "n", "s", "e", ">">>

\* index.js:93  case 'FINDOOTD'
CmdFind == <<"F", "I", "N", "D", "O", "O", "T", "D">>

\* index.js:116  case 'HELPOOTD'
CmdHelp == <<"H", "E", "L", "P", "O", "O", "T", "D">>

\* index.js:104  insertError.code === '23505'
DuplicateKeyCode == "23505"

\* message bodies that arrive in the Body form field
BodyFind == CmdFind
BodyFindVariant == <<" ", "f", "i", "n", "d", "o", "o", "t", "d">>
BodyHelpVariant == <<"H", "e", "l", "p", "O", "O", "T", "D", " ">>
BodyOther == <<"S", "t", "o", "p">>
BodyHelpLower == <<"\t", "h", "e", "l", "p", "o", "o", "t", "d", "\n">>
BodySplit == <<"F", "I", "N", "D", " ", "O", "O", "T", "D">>
BodyBlank == <<" ">>
Bodies ==
    {BodyFind, BodyFindVariant, BodyHelpVariant, BodyOther,
     BodyHelpLower, BodySplit, BodyBlank}

\* ------------------------------------------------------------------------
\* Pure helpers
\* ------------------------------------------------------------------------

\* JavaScript truthiness of a text value: null and '' are falsy
FalsySeq(v) == v = NullSeq \/ v = <<>>
FalsyStr(v) == v = NullStr \/ v = ""

LowerChars ==
    <<"a", "b", "c", "d", "e", "f", "g", "h", "i", "j", "k", "l", "m",
      "n", "o", "p", "q", "r", "s", "t", "u", "v", "w", "x", "y", "z">>
UpperChars ==
    <<"A", "B", "C", "D", "E", "F", "G", "H", "I", "J", "K", "L", "M",
      "N", "O", "P", "Q", "R", "S", "T", "U", "V", "W", "X", "Y", "Z">>

UpperChar(c) ==
    IF \E i \in 1..Len(LowerChars) : LowerChars[i] = c
    THEN UpperChars[CHOOSE i \in 1..Len(LowerChars) : LowerChars[i] = c]
    ELSE c

\* String.prototype.toUpperCase (index.js:58)
toUpperCase(s) == [i \in 1..Len(s) |-> UpperChar(s[i])]

WhiteSpace == {" ", "\t", "\n", "\r"}

RECURSIVE TrimStart(_)
TrimStart(s) ==
    IF s # <<>> /\ Head(s) \in WhiteSpace THEN TrimStart(Tail(s)) ELSE s

RECURSIVE TrimEnd(_)
TrimEnd(s) ==
    IF s # <<>> /\ s[Len(s)] \in WhiteSpace
    THEN TrimEnd(SubSeq(s, 1, Len(s) - 1))
    ELSE s

\* String.prototype.trim (index.js:58)
trim(s) == TrimEnd(TrimStart(s))

\* normalizedMessageBody without the trim
normalizedMessageBody_NoTrim(messageBody) == toUpperCase(messageBody)

\* index.js:58  messageBody.toUpperCase().trim()
normalizedMessageBody(messageBody) == trim(toUpperCase(messageBody))

Digits == <<"0", "1", "2", "3", "4", "5", "6", "7", "8", "9">>

\* Number.prototype.toString of a non-negative integer (index.js:45)
RECURSIVE toString(_)
toString(n) ==
    IF n < 10 THEN <<Digits[n + 1]>>
    ELSE Append(toString(n \div 10), Digits[(n % 10) + 1])

IsDigit(c) == \E i \in 1..10 : Digits[i] = c
DigitValue(c) == (CHOOSE i \in 1..10 : Digits[i] = c) - 1

RECURSIVE ParseDigits(_, _)
ParseDigits(s, acc) ==
    IF s # <<>> /\ IsDigit(Head(s))
    THEN ParseDigits(Tail(s), acc * 10 + DigitValue(Head(s)))
    ELSE acc

\* parseInt of a stored counter (index.js:35): the leading decimal digits.
\* The store only ever holds what line 45 wrote, so the text starts with a
\* digit and the NaN result is not needed.
parseInt(s) == ParseDigits(TrimStart(s), 0)

\* CurrentCount that takes an absent counter for a full one
CurrentCount_AbsentAsLimit(storedValue) ==
    IF FalsySeq(storedValue) THEN RateLimitThreshold ELSE parseInt(storedValue)

\* index.js:35  storedValue ? parseInt(storedValue) : 0
CurrentCount(storedValue) ==
    IF FalsySeq(storedValue) THEN 0 ELSE parseInt(storedValue)

\* ShouldRateLimit that lets the count reach the threshold
ShouldRateLimit_Above(currentCount) == currentCount > RateLimitThreshold

\* index.js:40  currentCount >= 5
ShouldRateLimit(currentCount) == currentCount >= RateLimitThreshold

\* IncrementedValue that stores the count it read
IncrementedValue_Same(currentCount) == toString(currentCount)

\* index.js:45  (currentCount + 1).toString()
IncrementedValue(currentCount) == toString(currentCount + 1)

\* index.js:29  `ratelimit:${fromPhoneNumber}`
rateLimitKey(fromPhoneNumber) == <<"ratelimit:", fromPhoneNumber>>

\* EscapeChar without the case of the ampersand
EscapeChar_NoAmpersand(c) ==
    CASE c = "<" -> <<"&", "l", "t", ";">>
      [] c = ">" -> <<"&", "g", "t", ";">>
      [] c = "'" -> <<"&", "a", "p", "o", "s", ";">>
      [] c = "\"" -> <<"&", "q", "u", "o", "t", ";">>
      [] OTHER -> <<c>>

\* index.js:165-172  the replacement of one matched character
EscapeChar(c) ==
    CASE c = "<" -> <<"&", "l", "t", ";">>
      [] c = ">" -> <<"&", "g", "t", ";">>
      [] c = "&" -> <<"&", "a", "m", "p", ";">>
      [] c = "'" -> <<"&", "a", "p", "o", "s", ";">>
      [] c = "\"" -> <<"&", "q", "u", "o", "t", ";">>
      [] OTHER -> <<c>>

RECURSIVE ReplaceAll(_)
ReplaceAll(s) ==
    IF s = <<>> THEN <<>> ELSE EscapeChar(Head(s)) \o ReplaceAll(Tail(s))

\* index.js:160-174
escapeXml(unsafe) == IF unsafe = NullSeq THEN <<>> ELSE ReplaceAll(unsafe)

\* index.js:9, 21, 26  new Response(text, { status })
PlainResponse(text, status) ==
    [status |-> status, contentType |-> "text/plain", body |-> text]

\* index.js:149-158
createTwimlResponse(message) ==
    [status |-> 200, contentType |-> "text/xml",
     body |-> TwimlPrefix \o escapeXml(message) \o TwimlSuffix]

\* no response produced yet
NoResponse == [status |-> 0, contentType |-> "", body |-> <<>>]

\* ConfigMissing that needs both settings to be absent
ConfigMissing_Both(e) == FalsyStr(e.SUPABASE_URL) /\ FalsyStr(e.SUPABASE_ANON_KEY)

\* RequiredMissing that does not look at the body
RequiredMissing_FromOnly(fromPhoneNumber, messageBody) ==
    FalsyStr(fromPhoneNumber)

\* index.js:24  !fromPhoneNumber || !messageBody
RequiredMissing(fromPhoneNumber, messageBody) ==
    FalsyStr(fromPhoneNumber) \/ FalsySeq(messageBody)

\* index.js:60  !env.SUPABASE_URL || !env.SUPABASE_ANON_KEY
ConfigMissing(e) == FalsyStr(e.SUPABASE_URL) \/ FalsyStr(e.SUPABASE_ANON_KEY)

\* index.js:90  isSubscribed = !!existingSubscriber
IsSubscribed(existingSubscriber) == existingSubscriber # NullStr

\* FindInsertReply that takes every insert error for the unique violation
FindInsertReply_AnyErrorDuplicate(insertError) ==
    IF insertError # NullStr THEN MsgAlready ELSE MsgSubscribed

\* FindInsertReply without the test of line 104
FindInsertReply_NoDuplicateTest(insertError) ==
    IF insertError # NullStr THEN MsgInsertError ELSE MsgSubscribed

\* index.js:102-112  the reply of FINDOOTD after the insert returned
\* insertError is NullStr (no error) or the error's code
FindInsertReply(insertError) ==
    IF insertError # NullStr
    THEN IF insertError = DuplicateKeyCode THEN MsgAlready ELSE MsgInsertError
    ELSE MsgSubscribed

\* ------------------------------------------------------------------------
\* State
\* ------------------------------------------------------------------------

VARIABLES
    req,      \* the locals of each handler invocation and what it has done
    kv,       \* env.RATE_LIMITS: key -> stored text and seconds left to live
    subs,     \* table subscribers: phone_number -> number of rows
    env,      \* env.SUPABASE_URL and env.SUPABASE_ANON_KEY
    arrived,  \* per sender: arrivals at the counter since its last expiry
    scn,      \* the traffic and the store outcomes of this behaviour
    hist,     \* per sender: passes of the rate-limit step, replies received
    xml       \* a text given to createTwimlResponse and what it returned

vars == <<req, kv, subs, env, arrived, scn, hist, xml>>

Keys == {rateLimitKey(s) : s \in Senders}

\* an absent key of the counter store
Absent == [value |-> NullSeq, ttl |-> 0]

EnvSet == [SUPABASE_URL |-> "https://db.example", SUPABASE_ANON_KEY |-> "anon-key"]

\* the settings of a deployment: each of the two present, empty or undefined
EnvValues ==
    {[SUPABASE_URL |-> u, SUPABASE_ANON_KEY |-> k] :
        u \in {EnvSet.SUPABASE_URL, ""},
        k \in {EnvSet.SUPABASE_ANON_KEY, NullStr}}

\* The behaviours explored.  Each fixes who sends what, how many invocations
\* overlap, whether the stores may fail, whether time passes and whether the
\* passes and the replies of each sender are recorded in hist.
Scenarios ==
    { \* two overlapping invocations for one sender against the table
      [name |-> "race", reqs |-> Reqs, senders |-> {"+15550001"},
       bodies |-> {BodyFind, BodyHelpVariant}, envs |-> {EnvSet},
       kvFaults |-> FALSE, dbFaults |-> TRUE, clock |-> FALSE,
       history |-> TRUE],
      \* two overlapping invocations for one sender against the counter
      [name |-> "limit", reqs |-> Reqs, senders |-> {"+15550001"},
       bodies |-> {BodyFindVariant}, envs |-> EnvValues,
       kvFaults |-> TRUE, dbFaults |-> FALSE, clock |-> TRUE,
       history |-> FALSE],
      \* two senders
      [name |-> "senders", reqs |-> Reqs, senders |-> Senders,
       bodies |-> {BodyFind}, envs |-> {EnvSet},
       kvFaults |-> FALSE, dbFaults |-> FALSE, clock |-> FALSE,
       history |-> FALSE],
      \* one invocation at a time, every input and every outcome
      [name |-> "alone", reqs |-> {"r1"}, senders |-> {"+15550001"},
       bodies |-> Bodies, envs |-> EnvValues,
       kvFaults |-> TRUE, dbFaults |-> TRUE, clock |-> TRUE,
       history |-> TRUE] }

\* what formData.get('From') and formData.get('Body') can return
FromValues == scn.senders \cup {"", NullStr}
BodyValues == scn.bodies \cup {<<>>, NullSeq}

\* whether a store call may settle either way or only succeeds
Settles(mayFail) == IF mayFail THEN BOOLEAN ELSE {TRUE}

\* a handler invocation that has not been entered
Idle ==
    [pc |-> "idle", method |-> "", form |-> "none",
     fromPhoneNumber |-> NullStr, messageBody |-> NullSeq,
     currentCount |-> 0, shouldRateLimit |-> FALSE,
     gets |-> 0, puts |-> 0, rlFault |-> "none", seq |-> "none",
     fresh |-> FALSE, alone |-> FALSE,
     lookups |-> 0, lookup |-> "none",
     inserts |-> 0, insert |-> "none",
     sent |-> 0, resp |-> NoResponse]

\* nothing has passed, lapsed or been replied for a sender
NoHistory ==
    [passed |-> 0, lapsedFull |-> FALSE, link |-> FALSE, already |-> FALSE]

\* no text has been given to createTwimlResponse
NoXml == [given |-> NullSeq, escaped |-> <<>>, body |-> <<>>, at |-> "idle"]

\* the stores and the invocations of a fresh deployment
Fresh ==
    /\ req = [r \in Reqs |-> Idle]
    /\ kv = [k \in Keys |-> Absent]
    /\ subs = [s \in Senders |-> 0]
    /\ arrived = [s \in Senders |-> 0]
    /\ hist = [s \in Senders |-> NoHistory]

Init ==
    /\ scn \in Scenarios
    /\ env \in scn.envs
    /\ Fresh
    /\ xml = NoXml

\* an invocation that is between its entry and its return
InFlight(rec) == rec.pc \notin {"idle", "done", "fault"}

\* the invocation returns response: its locals stay for inspection
Return(rec, response) ==
    [rec EXCEPT !.pc = "done", !.sent = @ + 1, !.resp = response]

\* ------------------------------------------------------------------------
\* fetch, lines 8-27: method gate, form parse, required fields
\* ------------------------------------------------------------------------

Start(r) ==
    /\ r \in scn.reqs
    /\ req[r].pc = "idle"
    /\ \E method \in {"POST", "GET"}, parsed \in BOOLEAN,
          from \in FromValues, body \in BodyValues :
        LET gated == [req[r] EXCEPT !.method = method]
            failed == [gated EXCEPT !.form = "fail"]
            read == [gated EXCEPT !.form = "ok",
                                  !.fromPhoneNumber = from,
                                  !.messageBody = body]
            accepted == method = "POST" /\ parsed
                            /\ ~RequiredMissing(from, body)
            \* the invocations in flight for the sender of an accepted message
            peers == {o \in Reqs \ {r} :
                        /\ accepted
                        /\ InFlight(req[o])
                        /\ req[o].fromPhoneNumber = from}
        IN  req' = [o \in Reqs |->
                IF o \in peers THEN [req[o] EXCEPT !.alone = FALSE]
                ELSE IF o # r THEN req[o]
                ELSE IF method # "POST"
                THEN Return(gated, PlainResponse(MsgExpectedPost, 405))
                ELSE IF ~parsed
                THEN Return(failed, PlainResponse(MsgParseFailed, 400))
                ELSE IF RequiredMissing(from, body)
                THEN Return(read, PlainResponse(MsgMissingFields, 400))
                ELSE [read EXCEPT !.pc = "rl_get",
                                  !.fresh = (subs[from] = 0),
                                  !.alone = (peers = {})]]
    /\ UNCHANGED <<kv, subs, env, arrived, scn, hist, xml>>

\* ------------------------------------------------------------------------
\* fetch, lines 29-71: rate limit, then the configuration check
\* ------------------------------------------------------------------------

\* AfterRateLimit without the early return of lines 54-56
AfterRateLimit_NoEarlyReturn(rec, e) ==
    LET left == [rec EXCEPT !.currentCount = 0]
    IN  IF ConfigMissing(e)
        THEN Return(left, createTwimlResponse(MsgConfigError))
        ELSE [left EXCEPT !.pc = "lookup"]

\* lines 54-71, run once the try block of lines 32-51 is left; currentCount
\* is a const of that block and is gone
AfterRateLimit(rec, e) ==
    LET left == [rec EXCEPT !.currentCount = 0]
    IN  IF rec.shouldRateLimit
        THEN Return(left, createTwimlResponse(MsgRateLimited))
        ELSE IF ConfigMissing(e)
        THEN Return(left, createTwimlResponse(MsgConfigError))
        ELSE [left EXCEPT !.pc = "lookup"]

\* CatchRateLimitError that blocks the message when the store fails
CatchRateLimitError_FailClosed(rec) == [rec EXCEPT !.shouldRateLimit = TRUE]

\* lines 49-51: the catch of the rate-limit block logs the error and leaves
\* the locals as they are
CatchRateLimitError(rec) == rec

\* another invocation for the same sender holds a count it has not written
Overlaps(r, s) ==
    \E o \in Reqs \ {r} :
        req[o].pc = "rl_put" /\ req[o].fromPhoneNumber = s

\* arrived[s]: how many invocations for s have read the counter since it last
\* expired, as long as they came one after another and the store did not
\* fail; Disturbed otherwise, until the next expiry
Disturbed == 0 - 1

Arrive(n) == IF n = Disturbed \/ n = MaxArrivals THEN n ELSE n + 1

\* hist[s].lapsedFull: the counter of s expired while it stood at the
\* threshold and has not been written above 1 since
\* hist[s].passed: how many invocations for s have passed the threshold test
\* since the counter last expired, as long as the counter store did not fail
\* and no invocation held a count across an expiry; Disturbed otherwise
Passed(h, passes) ==
    IF ~scn.history \/ ~passes \/ h.passed = Disturbed
                   \/ h.passed = MaxPassed
    THEN h
    ELSE [h EXCEPT !.passed = @ + 1]

StoreFailed(h) == IF scn.history THEN [h EXCEPT !.passed = Disturbed] ELSE h

\* the place of an arrival in an undisturbed window: among the first five
\* ("early"), after them ("late"), or not known
Place(n) == IF n = Disturbed THEN "none" ELSE IF n < 5 THEN "early" ELSE "late"

\* RlGet with a rate-limited invocation writing the count it read back,
\* with 60 seconds to live again
RlGet_Renews(r) ==
    /\ req[r].pc = "rl_get"
    /\ LET s == req[r].fromPhoneNumber
           key == rateLimitKey(s)
       IN \E ok \in Settles(scn.kvFaults) :
           IF ok
           THEN LET storedValue == kv[key].value
                    currentCount == CurrentCount(storedValue)
                    n == IF Overlaps(r, s) THEN Disturbed ELSE arrived[s]
                    got == [req[r] EXCEPT !.gets = @ + 1,
                                          !.currentCount = currentCount,
                                          !.seq = Place(n)]
                IN /\ kv' = IF ShouldRateLimit(currentCount)
                            THEN [kv EXCEPT ![key].ttl = ExpirationTtl]
                            ELSE kv
                   /\ arrived' = [arrived EXCEPT ![s] = Arrive(n)]
                   /\ hist' = [hist EXCEPT ![s] =
                        Passed(hist[s], ~ShouldRateLimit(currentCount))]
                   /\ req' = [req EXCEPT ![r] =
                        IF ShouldRateLimit(currentCount)
                        THEN AfterRateLimit(
                                [got EXCEPT !.shouldRateLimit = TRUE], env)
                        ELSE [got EXCEPT !.pc = "rl_put"]]
           ELSE \* get rejects: caught at line 49
                /\ kv' = kv
                /\ arrived' = [arrived EXCEPT ![s] = Disturbed]
                /\ hist' = [hist EXCEPT ![s] = StoreFailed(hist[s])]
                /\ req' = [req EXCEPT ![r] =
                        AfterRateLimit(
                            CatchRateLimitError(
                                [req[r] EXCEPT !.gets = @ + 1,
                                               !.rlFault = "get"]),
                            env)]
    /\ UNCHANGED <<subs, env, scn, xml>>

\* lines 34-43: RATE_LIMITS.get and the threshold test
RlGet(r) ==
    /\ req[r].pc = "rl_get"
    /\ LET s == req[r].fromPhoneNumber
           key == rateLimitKey(s)
       IN \E ok \in Settles(scn.kvFaults) :
           IF ok
           THEN LET storedValue == kv[key].value
                    currentCount == CurrentCount(storedValue)
                    n == IF Overlaps(r, s) THEN Disturbed ELSE arrived[s]
                    got == [req[r] EXCEPT !.gets = @ + 1,
                                          !.currentCount = currentCount,
                                          !.seq = Place(n)]
                IN /\ arrived' = [arrived EXCEPT ![s] = Arrive(n)]
                   /\ hist' = [hist EXCEPT ![s] =
                        Passed(hist[s], ~ShouldRateLimit(currentCount))]
                   /\ req' = [req EXCEPT ![r] =
                        IF ShouldRateLimit(currentCount)
                        THEN AfterRateLimit(
                                [got EXCEPT !.shouldRateLimit = TRUE], env)
                        ELSE [got EXCEPT !.pc = "rl_put"]]
           ELSE \* get rejects: caught at line 49
                /\ arrived' = [arrived EXCEPT ![s] = Disturbed]
                /\ hist' = [hist EXCEPT ![s] = StoreFailed(hist[s])]
                /\ req' = [req EXCEPT ![r] =
                        AfterRateLimit(
                            CatchRateLimitError(
                                [req[r] EXCEPT !.gets = @ + 1,
                                               !.rlFault = "get"]),
                            env)]
    /\ UNCHANGED <<kv, subs, env, scn, xml>>

\* lines 45-47: RATE_LIMITS.put of the incremented count, 60 seconds to live
RlPut(r) ==
    /\ req[r].pc = "rl_put"
    /\ LET s == req[r].fromPhoneNumber
           key == rateLimitKey(s)
           value == IncrementedValue(req[r].currentCount)
       IN \E ok \in Settles(scn.kvFaults) :
           IF ok
           THEN /\ kv' = [kv EXCEPT ![key] =
                            [value |-> value, ttl |-> ExpirationTtl]]
                /\ arrived' = arrived
                /\ hist' = [hist EXCEPT ![s].lapsedFull =
                                @ /\ req[r].currentCount = 0]
                /\ req' = [req EXCEPT ![r] =
                        AfterRateLimit(
                            [req[r] EXCEPT
                                !.puts = @ + 1,
                                !.seq = IF arrived[s] = Disturbed
                                        THEN "none" ELSE @],
                            env)]
           ELSE \* put rejects: caught at line 49
                /\ kv' = kv
                /\ arrived' = [arrived EXCEPT ![s] = Disturbed]
                /\ hist' = [hist EXCEPT ![s] = StoreFailed(hist[s])]
                /\ req' = [req EXCEPT ![r] =
                        AfterRateLimit(
                            CatchRateLimitError(
                                [req[r] EXCEPT !.puts = @ + 1,
                                               !.rlFault = "put",
                                               !.seq = "none"]),
                            env)]
    /\ UNCHANGED <<subs, env, scn, xml>>

\* ------------------------------------------------------------------------
\* fetch, lines 75-144: subscriber lookup, command dispatch, insert
\* ------------------------------------------------------------------------

\* the row that select('phone_number').eq(...).maybeSingle() returns
SelectRow(table, phone) == IF table[phone] > 0 THEN phone ELSE NullStr

\* InsertRow into a table without the unique constraint
InsertRow_NoUnique(table, phone) ==
    [error |-> NullStr, table |-> [table EXCEPT ![phone] = @ + 1]]

\* insert into a table whose phone_number column carries a unique constraint:
\* the error code of the insert (NullStr: none) and the table afterwards
InsertRow(table, phone) ==
    IF table[phone] > 0
    THEN [error |-> DuplicateKeyCode, table |-> table]
    ELSE [error |-> NullStr, table |-> [table EXCEPT ![phone] = @ + 1]]

\* an insert error that is not the unique violation
OtherErrorCode == "42501"

\* how a call of the Supabase client can end: with the store's answer, with
\* an error value, or by throwing
LookupOutcomes == IF scn.dbFaults THEN {"data", "error", "throw"} ELSE {"data"}
InsertOutcomes == IF scn.dbFaults THEN {"store", "error", "throw"} ELSE {"store"}

\* Dispatch whose FINDOOTD case inserts whether or not a row was found
Dispatch_AlwaysInsert(rec, isSubscribed) ==
    LET cmd == normalizedMessageBody(rec.messageBody)
    IN  CASE cmd = CmdFind -> [rec EXCEPT !.pc = "insert"]
          [] cmd = CmdHelp ->
                IF ~isSubscribed
                THEN [rec EXCEPT !.pc = "insert"]
                ELSE Return(rec, createTwimlResponse(MsgHelp))
          [] OTHER -> Return(rec, createTwimlResponse(MsgUnknown))

\* Dispatch whose FINDOOTD case never inserts
Dispatch_NeverInsert(rec, isSubscribed) ==
    LET cmd == normalizedMessageBody(rec.messageBody)
    IN  CASE cmd = CmdFind -> Return(rec, createTwimlResponse(MsgAlready))
          [] cmd = CmdHelp ->
                IF ~isSubscribed
                THEN [rec EXCEPT !.pc = "insert"]
                ELSE Return(rec, createTwimlResponse(MsgHelp))
          [] OTHER -> Return(rec, createTwimlResponse(MsgUnknown))

\* lines 92-133 up to the first insert
Dispatch(rec, isSubscribed) ==
    LET cmd == normalizedMessageBody(rec.messageBody)
    IN  CASE cmd = CmdFind ->
                IF isSubscribed
                THEN Return(rec, createTwimlResponse(MsgAlready))
                ELSE [rec EXCEPT !.pc = "insert"]
          [] cmd = CmdHelp ->
                IF ~isSubscribed
                THEN [rec EXCEPT !.pc = "insert"]
                ELSE Return(rec, createTwimlResponse(MsgHelp))
          [] OTHER -> Return(rec, createTwimlResponse(MsgUnknown))

\* SelectErrorReturn that goes on to the switch as if no row was found
SelectErrorReturn_FallThrough(rec) == Dispatch(rec, FALSE)

\* lines 84-88: the lookup returned an error value
SelectErrorReturn(rec) == Return(rec, createTwimlResponse(MsgSelectError))

\* AfterInsert that reports the insert's outcome for HELPOOTD too
AfterInsert_Surface(rec, insertError) ==
    Return(rec, createTwimlResponse(FindInsertReply(insertError)))

\* lines 98-112 and 119-127: the reply once the insert has returned
AfterInsert(rec, insertError) ==
    LET cmd == normalizedMessageBody(rec.messageBody)
    IN  IF cmd = CmdFind
        THEN Return(rec, createTwimlResponse(FindInsertReply(insertError)))
        ELSE Return(rec, createTwimlResponse(MsgHelp))

\* lines 109 and 103 with line 144: the two responses to FINDOOTD that speak
\* of the download
LinkResponse == createTwimlResponse(MsgSubscribed)
AlreadyResponse == createTwimlResponse(MsgAlready)

\* the replies a sender has received, with the one just returned to it
Told(h, rec) ==
    IF ~scn.history \/ rec.pc # "done" THEN h
    ELSE [h EXCEPT !.link = @ \/ rec.resp = LinkResponse,
                   !.already = @ \/ rec.resp = AlreadyResponse]

\* CatchAll letting the fault leave fetch
CatchAll_Rethrow(rec) == [rec EXCEPT !.pc = "fault"]

\* lines 135-144: the catch-all sets the generic reply, line 144 returns it
CatchAll(rec) == Return(rec, createTwimlResponse(MsgUnexpected))

\* lines 77-90 and the switch
Lookup(r) ==
    /\ req[r].pc = "lookup"
    /\ \E outcome \in LookupOutcomes :
        LET s == req[r].fromPhoneNumber
            asked == [req[r] EXCEPT !.lookups = @ + 1]
            existingSubscriber == SelectRow(subs, s)
            after ==
                CASE outcome = "data" ->
                        Dispatch([asked EXCEPT !.lookup =
                                    IF IsSubscribed(existingSubscriber)
                                    THEN "row" ELSE "norow"],
                                 IsSubscribed(existingSubscriber))
                  [] outcome = "error" ->
                        SelectErrorReturn([asked EXCEPT !.lookup = "error"])
                  [] OTHER ->
                        \* lines 135-144
                        CatchAll([asked EXCEPT !.lookup = "throw"])
        IN  /\ req' = [req EXCEPT ![r] = after]
            /\ hist' = [hist EXCEPT ![s] = Told(hist[s], after)]
    /\ UNCHANGED <<kv, subs, env, arrived, scn, xml>>

\* lines 98-100 and 119-121: insert({ phone_number: fromPhoneNumber })
Insert(r) ==
    /\ req[r].pc = "insert"
    /\ \E outcome \in InsertOutcomes :
        LET s == req[r].fromPhoneNumber
            tried == [req[r] EXCEPT !.inserts = @ + 1]
            result == InsertRow(subs, s)
            after ==
                CASE outcome = "store" ->
                        AfterInsert([tried EXCEPT !.insert =
                                        IF result.error = NullStr
                                        THEN "ok" ELSE "duplicate"],
                                    result.error)
                  [] outcome = "error" ->
                        AfterInsert([tried EXCEPT !.insert = "error"],
                                    OtherErrorCode)
                  [] OTHER ->
                        \* the client throws: lines 135-144
                        CatchAll([tried EXCEPT !.insert = "throw"])
        IN  /\ subs' = IF outcome = "store" THEN result.table ELSE subs
            /\ req' = [req EXCEPT ![r] = after]
            /\ hist' = [hist EXCEPT ![s] = Told(hist[s], after)]
    /\ UNCHANGED <<kv, env, arrived, scn, xml>>

\* the response has been sent; the next invocation starts from fresh locals
Finish(r) ==
    /\ req[r].pc = "done"
    /\ req' = [req EXCEPT ![r] = Idle]
    /\ UNCHANGED <<kv, subs, env, arrived, scn, hist, xml>>

\* ------------------------------------------------------------------------
\* The counter store's clock: expirationTtl of line 46
\* ------------------------------------------------------------------------

Expires(k) == kv[k].ttl > 0 /\ kv[k].ttl <= TickStep

Tick ==
    /\ scn.clock
    /\ \E k \in Keys : kv[k].ttl > 0
    /\ kv' = [k \in Keys |->
                IF kv[k].ttl > TickStep
                THEN [kv[k] EXCEPT !.ttl = @ - TickStep]
                ELSE Absent]
    /\ arrived' = [s \in Senders |->
                IF Expires(rateLimitKey(s))
                THEN IF \E o \in Reqs : /\ req[o].pc = "rl_put"
                                        /\ req[o].fromPhoneNumber = s
                     THEN Disturbed ELSE 0
                ELSE arrived[s]]
    /\ hist' = [s \in Senders |->
                IF Expires(rateLimitKey(s))
                THEN [hist[s] EXCEPT
                        !.passed =
                            IF ~scn.history THEN @
                            ELSE IF \E o \in Reqs :
                                        /\ req[o].pc = "rl_put"
                                        /\ req[o].fromPhoneNumber = s
                            THEN Disturbed ELSE 0,
                        !.lapsedFull =
                            ShouldRateLimit(
                                CurrentCount(kv[rateLimitKey(s)].value))]
                ELSE hist[s]]
    /\ UNCHANGED <<req, subs, env, scn, xml>>

Next ==
    \/ \E r \in Reqs : Start(r)
    \/ \E r \in Reqs : RlGet(r)
    \/ \E r \in Reqs : RlPut(r)
    \/ \E r \in Reqs : Lookup(r)
    \/ \E r \in Reqs : Insert(r)
    \/ \E r \in Reqs : Finish(r)
    \/ Tick

Spec == Init /\ [][Next]_vars

\* ------------------------------------------------------------------------
\* createTwimlResponse and escapeXml on their own, lines 149-174
\* ------------------------------------------------------------------------

\* the letters of the texts tried: the five the rule names, a plain letter
\* and the semicolon that ends an entity
EscLetters == {"<", ">", "&", "'", "\"", "a", ";"}

\* null or undefined, every text of at most MaxTextLen letters, and the
\* reply texts of fetch
EscTexts ==
    {NullSeq}
    \cup UNION {[1..n -> EscLetters] : n \in 0..MaxTextLen}
    \cup {MsgRateLimited, MsgConfigError, MsgSelectError, MsgAlready,
          MsgInsertError, MsgSubscribed, MsgHelp, MsgUnknown, MsgUnexpected}

EscInit ==
    /\ scn \in {c \in Scenarios : c.name = "alone"}
    /\ env = EnvSet
    /\ Fresh
    /\ xml \in {[NoXml EXCEPT !.given = t, !.at = "given"] : t \in EscTexts}

\* createTwimlResponse(message)
Escape ==
    /\ xml.at = "given"
    /\ xml' = [xml EXCEPT !.escaped = escapeXml(xml.given),
                          !.body = createTwimlResponse(xml.given).body,
                          !.at = "returned"]
    /\ UNCHANGED <<req, kv, subs, env, arrived, scn, hist>>

\* the next text
Give ==
    /\ xml.at = "returned"
    /\ \E t \in EscTexts :
        xml' = [NoXml EXCEPT !.given = t, !.at = "given"]
    /\ UNCHANGED <<req, kv, subs, env, arrived, scn, hist>>

EscNext == Escape \/ Give

EscapeSpec == EscInit /\ [][EscNext]_vars

TypeOK ==
    /\ \A r \in Reqs : req[r].pc \in
          {"idle", "rl_get", "rl_put", "lookup", "insert", "done", "fault"}
    /\ \A s \in Senders : subs[s] \in 0..1
    /\ \A s \in Senders :
        /\ hist[s].passed \in {Disturbed} \cup 0..MaxPassed
        /\ hist[s].lapsedFull \in BOOLEAN
        /\ hist[s].link \in BOOLEAN
        /\ hist[s].already \in BOOLEAN
    /\ xml.at \in {"idle", "given", "returned"}

\* ------------------------------------------------------------------------
\* Properties
\* ------------------------------------------------------------------------

\* the dispatch key of an invocation
Cmd(rec) == normalizedMessageBody(rec.messageBody)

\* the invocation was answered with the TwiML reply text
Replied(rec, text) == rec.pc = "done" /\ rec.resp = createTwimlResponse(text)

\* the record store answered every call of the invocation from the table's
\* content: no error value other than the unique violation, nothing thrown
StoreAnswered(rec) ==
    /\ rec.lookup \in {"row", "norow"}
    /\ rec.insert \in {"none", "ok", "duplicate"}

\* two FINDOOTD invocations for one sender, both entered while the sender had
\* no row and while the other was in flight, both answered
FindRace(a, b) ==
    /\ a # b
    /\ req[a].pc = "done" /\ req[b].pc = "done"
    /\ req[a].fromPhoneNumber = req[b].fromPhoneNumber
    /\ Cmd(req[a]) = CmdFind /\ Cmd(req[b]) = CmdFind
    /\ req[a].fresh /\ req[b].fresh
    /\ ~req[a].alone /\ ~req[b].alone
    /\ StoreAnswered(req[a]) /\ StoreAnswered(req[b])

\* C1: two concurrent FINDOOTD requests from one sender without a row, whose
\* store calls are all answered by the table, end under every interleaving
\* with exactly one successful insert, the other insert (if attempted)
\* refused as a duplicate, each reply the subscription confirmation or the
\* "already got" message (never the "Sorry" message), and one row.
C1_FindRace ==
    \A a, b \in Reqs :
        FindRace(a, b) =>
            /\ Cardinality({r \in {a, b} : req[r].insert = "ok"}) = 1
            /\ \A r \in {a, b} :
                /\ req[r].insert \in {"ok", "duplicate", "none"}
                /\ req[r].inserts = (IF req[r].insert = "none" THEN 0 ELSE 1)
                /\ \/ Replied(req[r], MsgSubscribed)
                   \/ Replied(req[r], MsgAlready)
                /\ ~Replied(req[r], MsgInsertError)
                /\ Replied(req[r], MsgSubscribed) <=> req[r].insert = "ok"
            /\ subs[req[a].fromPhoneNumber] = 1

\* both invocations found no row and both inserted: one got the duplicate
C1_Witness ==
    \E a, b \in Reqs :
        /\ FindRace(a, b)
        /\ req[a].lookup = "norow" /\ req[b].lookup = "norow"
        /\ req[a].insert = "ok" /\ req[b].insert = "duplicate"
        /\ Replied(req[b], MsgAlready)

\* every store call of an invocation in flight settles
Fairness ==
    \A r \in Reqs : WF_vars(RlGet(r) \/ RlPut(r) \/ Lookup(r) \/ Insert(r))

\* one invocation at a time, every input and every outcome
FairInit == Init /\ scn.name = "alone"

FairSpec == FairInit /\ [][Next]_vars /\ Fairness

\* the invocation has returned exactly one response, or none yet
OneResponse(rec) ==
    /\ rec.pc # "fault"
    /\ rec.sent = (IF rec.pc = "done" THEN 1 ELSE 0)
    /\ rec.pc = "done" =>
        /\ rec.resp.status \in {200, 400, 405}
        /\ rec.resp.body # <<>>
    /\ rec.pc # "done" => rec.resp = NoResponse

PassedRateLimit(rec) ==
    /\ rec.pc \in {"lookup", "insert", "done"}
    /\ rec.gets = 1
    /\ ~rec.shouldRateLimit
    /\ ~Replied(rec, MsgRateLimited)

\* C3: among the requests of one sender that reach the counter one after
\* another, with no expiry and no failure of the counter store in between, a
\* request preceded by fewer than 5 counted ones is not rate-limited and goes
\* on to command processing, and a request preceded by 5 is answered with
\* "Message rate limit exceeded. Please try again later.": the first five
\* pass, the sixth and later ones are rejected.
C3_FirstFivePass ==
    \A r \in Reqs :
        /\ req[r].seq = "early" =>
            \/ req[r].pc = "rl_put" /\ ~req[r].shouldRateLimit
            \/ PassedRateLimit(req[r]) /\ req[r].puts = 1
        /\ req[r].seq = "late" =>
            /\ req[r].shouldRateLimit
            /\ Replied(req[r], MsgRateLimited)

\* the seventh request in a row is rejected, and so was the sixth
C3_Witness ==
    \E r \in Reqs :
        /\ req[r].seq = "late"
        /\ arrived[req[r].fromPhoneNumber] = 7
        /\ Replied(req[r], MsgRateLimited)

\* the counter of a sender, as a number (0 when absent)
Counter(store, s) == CurrentCount(store[rateLimitKey(s)].value)

\* invocation r calls RATE_LIMITS.put in this step
Puts(r) == req'[r].puts = req[r].puts + 1

\* the key has only aged or expired in this step
Aged(k) ==
    \/ kv'[k] = kv[k]
    \/ kv'[k] = Absent
    \/ kv'[k].value = kv[k].value /\ kv'[k].ttl < kv[k].ttl

\* C4: an invocation calls put at most once, only after it read a count
\* below 5, and the put stores that count plus 1 under its own sender's key
\* with 60 seconds to live and touches no other key; an invocation that read
\* 5 or more never calls put; nothing but a put changes a counter's value.
C4_CounterWrites ==
    [][ /\ \A r \in Reqs :
            /\ req'[r].puts <= 1
            /\ req'[r].shouldRateLimit => req'[r].puts = 0
            /\ Puts(r) =>
                /\ req[r].gets = 1 /\ req[r].puts = 0
                /\ req[r].currentCount < 5
                /\ req'[r].rlFault = "none" =>
                    /\ Counter(kv', req[r].fromPhoneNumber)
                            = req[r].currentCount + 1
                    /\ kv'[rateLimitKey(req[r].fromPhoneNumber)].ttl = 60
                /\ \A s \in Senders \ {req[r].fromPhoneNumber} :
                        kv'[rateLimitKey(s)] = kv[rateLimitKey(s)]
        /\ (\A r \in Reqs : ~Puts(r)) => \A k \in Keys : Aged(k)
      ]_vars

\* an invocation has written 3 after reading 2 for one sender while another,
\* having read 5 for the other sender, was limited without a put
C4_Witness ==
    \E r, q \in Reqs :
        /\ req[r].puts = 1 /\ req[r].rlFault = "none"
        /\ req[q].shouldRateLimit /\ req[q].gets = 1 /\ req[q].puts = 0
        /\ req[r].fromPhoneNumber # req[q].fromPhoneNumber
        /\ Counter(kv, req[r].fromPhoneNumber) = 3
        /\ Counter(kv, req[q].fromPhoneNumber) = 5

\* C5: a FINDOOTD request of a sender without a row, with no other request
\* of that sender in flight during it, not rate-limited, configured, whose
\* lookup and insert neither return an error nor throw, finds no row,
\* inserts once, leaves exactly one row for the sender and replies "Thanks
\* for subscribing! Here's the download link: https://ootd-website.vercel.app/".
C5_FirstFind ==
    \A r \in Reqs :
        ( /\ req[r].pc = "done"
          /\ Cmd(req[r]) = CmdFind
          /\ req[r].fresh /\ req[r].alone
          /\ req[r].lookup \in {"row", "norow"}
          /\ req[r].insert \notin {"error", "throw"} )
        => /\ req[r].lookup = "norow"
           /\ req[r].inserts = 1 /\ req[r].insert = "ok"
           /\ subs[req[r].fromPhoneNumber] = 1
           /\ Replied(req[r], MsgSubscribed)

\* a first FINDOOTD, sent in lower case with a leading blank, was subscribed
C5_Witness ==
    \E r \in Reqs :
        /\ req[r].messageBody = BodyFindVariant
        /\ req[r].fresh /\ req[r].alone
        /\ req[r].insert = "ok"
        /\ Replied(req[r], MsgSubscribed)
        /\ subs[req[r].fromPhoneNumber] = 1

\* a FINDOOTD whose lookup found the sender's row
FoundRow(rec) == rec.lookup = "row" /\ Cmd(rec) = CmdFind

\* C6: a FINDOOTD request whose lookup finds a row of the sender attempts no
\* insert, leaves the table as it is and replies "Hey! You've already got the
\* download for the app.": the lookup is its last step.
C6_FoundNoInsert ==
    [][ \A r \in Reqs :
            /\ FoundRow(req'[r]) =>
                /\ req'[r].inserts = 0 /\ req'[r].insert = "none"
                /\ Replied(req'[r], MsgAlready)
            /\ (FoundRow(req'[r]) /\ ~FoundRow(req[r])) => subs' = subs
      ]_vars

\* answered "already got" after finding the row
C6_Witness ==
    \E r \in Reqs :
        /\ FoundRow(req[r])
        /\ subs[req[r].fromPhoneNumber] = 1
        /\ Replied(req[r], MsgAlready)

\* a setting of the record store that is '' or undefined
SettingAbsent(v) == v = "" \/ v = NullStr

SettingsAbsent ==
    SettingAbsent(env.SUPABASE_URL) \/ SettingAbsent(env.SUPABASE_ANON_KEY)

\* a well-formed POST whose command is HELPOOTD, answered, not rate-limited,
\* handled with both settings present
HelpHandled(rec) ==
    /\ rec.pc = "done"
    /\ rec.method = "POST" /\ rec.form = "ok"
    /\ ~FalsyStr(rec.fromPhoneNumber) /\ ~FalsySeq(rec.messageBody)
    /\ Cmd(rec) = CmdHelp
    /\ ~rec.shouldRateLimit
    /\ ~SettingsAbsent

\* C7 as claimed: every such HELPOOTD request is answered with "Need help?
\* Join our discord: https://discord.gg/erJWg63SdP".
C7_HelpAlways ==
    \A r \in Reqs : HelpHandled(req[r]) => Replied(req[r], MsgHelp)

\* C7, amended: every such HELPOOTD request whose lookup returns without an
\* error and whose lookup and insert do not throw is answered with "Need
\* help? Join our discord: https://discord.gg/erJWg63SdP", whether or not the
\* sender has a row and whether the insert succeeds, is refused as a
\* duplicate or returns another error.
C7_HelpReply ==
    \A r \in Reqs :
        ( /\ HelpHandled(req[r])
          /\ req[r].lookup \in {"row", "norow"}
          /\ req[r].insert # "throw" )
        => Replied(req[r], MsgHelp)

\* the best-effort insert returned an error and the reply is the help text
C7_Witness ==
    \E r \in Reqs :
        /\ HelpHandled(req[r])
        /\ req[r].lookup = "norow"
        /\ req[r].insert = "error"
        /\ Replied(req[r], MsgHelp)

\* C8: a rate-limited request is answered with "Message rate limit exceeded.
\* Please try again later." and makes no lookup and no insert, whatever its
\* command; the step that limits it leaves the table as it is.
C8_LimitedNoStoreAccess ==
    [][ \A r \in Reqs :
            /\ req'[r].shouldRateLimit =>
                /\ Replied(req'[r], MsgRateLimited)
                /\ req'[r].lookups = 0 /\ req'[r].lookup = "none"
                /\ req'[r].inserts = 0 /\ req'[r].insert = "none"
            /\ (req'[r].shouldRateLimit /\ ~req[r].shouldRateLimit)
                    => subs' = subs
      ]_vars

\* a limited FINDOOTD of a sender that has no row
C8_Witness ==
    \E r \in Reqs :
        /\ req[r].shouldRateLimit
        /\ Cmd(req[r]) = CmdFind
        /\ subs[req[r].fromPhoneNumber] = 0
        /\ Replied(req[r], MsgRateLimited)

\* C9: a request whose counter-store read or write fails is not rate-limited:
\* it goes on to the configuration check and, with the settings present, to
\* the lookup, and its reply is not the rate-limit message.
C9_FailsOpen ==
    \A r \in Reqs :
        req[r].rlFault # "none" =>
            /\ ~req[r].shouldRateLimit
            /\ ~Replied(req[r], MsgRateLimited)
            /\ req[r].pc \in {"lookup", "insert", "done"}
            /\ SettingsAbsent => Replied(req[r], MsgConfigError)
            /\ ~SettingsAbsent =>
                    (req[r].pc = "lookup" \/ req[r].lookups = 1)

\* the put failed with the counter at 4 and the request was subscribed
C9_Witness ==
    \E r \in Reqs :
        /\ req[r].rlFault = "put"
        /\ Counter(kv, req[r].fromPhoneNumber) = 4
        /\ req[r].insert = "ok"
        /\ Replied(req[r], MsgSubscribed)

\* C10: a well-formed POST that passes the rate-limit step while the
\* connection URL or the access credential is absent is answered with
\* "Server configuration error." and makes no lookup and no insert, whatever
\* its command.
C10_ConfigError ==
    \A r \in Reqs :
        ( /\ req[r].pc \in {"lookup", "insert", "done"}
          /\ req[r].form = "ok" /\ req[r].gets = 1
          /\ ~req[r].shouldRateLimit
          /\ SettingsAbsent )
        => /\ Replied(req[r], MsgConfigError)
           /\ req[r].lookups = 0 /\ req[r].lookup = "none"
           /\ req[r].inserts = 0 /\ req[r].insert = "none"

\* only the credential is absent and a FINDOOTD gets the configuration reply
C10_Witness ==
    \E r \in Reqs :
        /\ ~SettingAbsent(env.SUPABASE_URL)
        /\ SettingAbsent(env.SUPABASE_ANON_KEY)
        /\ Cmd(req[r]) = CmdFind
        /\ req[r].puts = 1
        /\ Replied(req[r], MsgConfigError)

\* C11: a request whose lookup returns a store error is answered with "There
\* was a server error checking your status." in that very step: the switch is
\* not entered, no insert is attempted and the table stays as it is, whatever
\* the command.
C11_SelectErrorTerminal ==
    [][ \A r \in Reqs :
            /\ req'[r].lookup = "error" =>
                /\ Replied(req'[r], MsgSelectError)
                /\ req'[r].lookups = 1
                /\ req'[r].inserts = 0 /\ req'[r].insert = "none"
            /\ (req'[r].lookup = "error" /\ req[r].lookup # "error")
                    => subs' = subs
      ]_vars

\* a FINDOOTD of a sender without a row stopped at the failed lookup
C11_Witness ==
    \E r \in Reqs :
        /\ req[r].lookup = "error"
        /\ Cmd(req[r]) = CmdFind
        /\ subs[req[r].fromPhoneNumber] = 0
        /\ Replied(req[r], MsgSelectError)

\* a FINDOOTD whose lookup found no row
FindInserted(rec) == rec.lookup = "norow" /\ Cmd(rec) = CmdFind

\* C12: for a FINDOOTD whose lookup found no row, an insert that fails with
\* an error other than 23505 is answered with "Sorry, there was an error
\* subscribing you. Please try again." and adds no row; an insert refused
\* with 23505 is answered with the "already got" message.
C12_InsertErrors ==
    [][ \A r \in Reqs :
            FindInserted(req'[r]) =>
                /\ req'[r].insert = "error" =>
                    /\ Replied(req'[r], MsgInsertError)
                    /\ req[r].insert # "error" => subs' = subs
                /\ req'[r].insert = "duplicate" =>
                    /\ Replied(req'[r], MsgAlready)
                    /\ subs'[req'[r].fromPhoneNumber] = 1
      ]_vars

\* the insert failed otherwise and the sender still has no row
C12_Witness ==
    \E r \in Reqs :
        /\ FindInserted(req[r])
        /\ req[r].insert = "error"
        /\ subs[req[r].fromPhoneNumber] = 0
        /\ Replied(req[r], MsgInsertError)

\* the bodies that are FINDOOTD or HELPOOTD up to case and surrounding
\* white space, listed
FindTexts == {BodyFind, BodyFindVariant}
HelpTexts == {BodyHelpVariant, BodyHelpLower}

\* the invocation has entered the FINDOOTD or the HELPOOTD case
InFindCase(rec) ==
    IF rec.lookup = "row"
    THEN Replied(rec, MsgAlready) /\ rec.inserts = 0
    ELSE \/ rec.pc = "insert"
         \/ rec.inserts = 1 /\ rec.insert \in {"throw"}
                /\ Replied(rec, MsgUnexpected)
         \/ rec.inserts = 1 /\ rec.insert = "ok"
                /\ Replied(rec, MsgSubscribed)
         \/ rec.inserts = 1 /\ rec.insert = "duplicate"
                /\ Replied(rec, MsgAlready)
         \/ rec.inserts = 1 /\ rec.insert = "error"
                /\ Replied(rec, MsgInsertError)

InHelpCase(rec) ==
    IF rec.lookup = "row"
    THEN Replied(rec, MsgHelp) /\ rec.inserts = 0
    ELSE \/ rec.pc = "insert"
         \/ rec.inserts = 1 /\ rec.insert = "throw"
                /\ Replied(rec, MsgUnexpected)
         \/ rec.inserts = 1 /\ rec.insert \in {"ok", "duplicate", "error"}
                /\ Replied(rec, MsgHelp)

\* C13: the switch is on the upper-cased, trimmed body: a request whose
\* lookup returned and whose body is not FINDOOTD or HELPOOTD up to case and
\* surrounding white space is answered with "Unknown command. Text FINDOOTD
\* to subscribe or HELPOOTD for help." and attempts no insert; every case or
\* white-space variant of FINDOOTD or HELPOOTD is handled as that command.
C13_Dispatch ==
    \A r \in Reqs :
        req[r].lookup \in {"row", "norow"} =>
            /\ req[r].messageBody \in FindTexts => InFindCase(req[r])
            /\ req[r].messageBody \in HelpTexts => InHelpCase(req[r])
            /\ req[r].messageBody \notin (FindTexts \cup HelpTexts) =>
                /\ Replied(req[r], MsgUnknown)
                /\ req[r].inserts = 0 /\ req[r].insert = "none"

\* "\thelpootd\n" of a sender without a row was handled as HELPOOTD and
\* inserted the row
C13_Witness ==
    \E r \in Reqs :
        /\ req[r].messageBody = BodyHelpLower
        /\ req[r].lookup = "norow" /\ req[r].insert = "ok"
        /\ Replied(req[r], MsgHelp)

\* a text starts with pre and ends with post
Wrapped(text, pre, post) ==
    /\ Len(text) >= Len(pre) + Len(post)
    /\ SubSeq(text, 1, Len(pre)) = pre
    /\ SubSeq(text, Len(text) - Len(post) + 1, Len(text)) = post

\* the invocation has touched neither the counter store nor the table
NoStoreCall(rec) ==
    rec.gets = 0 /\ rec.puts = 0 /\ rec.lookups = 0 /\ rec.inserts = 0

\* C14: the transport checks decide the kind of response: a non-POST request
\* gets status 405 with body "Expected POST request"; a POST whose form does
\* not decode or whose From or Body is absent or empty gets status 400; every
\* other request gets status 200, text/xml and the provider envelope; a
\* request answered with 405 or 400 calls neither store and its step leaves
\* both as they are.
C14_ResponseKind ==
    [][ \A r \in Reqs :
            (req'[r].pc = "done" /\ req[r].pc # "done") =>
                LET rec == req'[r]
                    malformed == \/ rec.form = "fail"
                                 \/ rec.fromPhoneNumber \in {"", NullStr}
                                 \/ rec.messageBody \in {<<>>, NullSeq}
                IN  /\ rec.method # "POST" =>
                        /\ rec.resp.status = 405
                        /\ rec.resp.body = MsgExpectedPost
                    /\ (rec.method = "POST" /\ malformed) =>
                        rec.resp.status = 400
                    /\ (rec.method = "POST" /\ ~malformed) =>
                        /\ rec.resp.status = 200
                        /\ rec.resp.contentType = "text/xml"
                        /\ Wrapped(rec.resp.body, TwimlPrefix, TwimlSuffix)
                    /\ rec.resp.status \in {400, 405} =>
                        /\ NoStoreCall(rec)
                        /\ kv' = kv /\ subs' = subs
      ]_vars

\* a POST with a sender and an empty Body was answered 400 without a store
\* call, while the sender's counter stood at 2
C14_Witness ==
    \E r \in Reqs :
        /\ req[r].pc = "done"
        /\ req[r].method = "POST" /\ req[r].form = "ok"
        /\ req[r].fromPhoneNumber \in Senders
        /\ req[r].messageBody = <<>>
        /\ req[r].resp.status = 400
        /\ NoStoreCall(req[r])
        /\ Counter(kv, req[r].fromPhoneNumber) = 2

\* C16: the handler never changes or removes a row: over every step the
\* number of rows of each phone number does not decrease and never exceeds
\* one, so a sender that has a row has it in every later state.
C16_RowsOnlyGrow ==
    [][ \A s \in Senders :
            /\ subs'[s] >= subs[s]
            /\ subs'[s] <= 1
            /\ subs[s] = 1 => subs'[s] = 1
      ]_vars

\* two invocations for one sender both tried to insert and one row exists
C16_Witness ==
    \E a, b \in Reqs :
        /\ a # b
        /\ req[a].fromPhoneNumber = req[b].fromPhoneNumber
        /\ req[a].insert = "ok" /\ req[b].insert = "duplicate"
        /\ Cmd(req[b]) = CmdHelp
        /\ subs[req[a].fromPhoneNumber] = 1

\* invocation r calls RATE_LIMITS.get in this step
Gets(r) == req'[r].gets = req[r].gets + 1

\* only the clock of the counter store moves in this step
ClockStep == req' = req /\ kv' # kv

\* seconds since the key was last written
SinceWrite(k) == 60 - kv[k].ttl

\* C15: a counter is absent once 60 seconds have passed since its last write,
\* and the first message of the sender after that is counted from 0: it is
\* not rate-limited and stores 1 with a new expiry of 60 seconds, also when
\* the counter stood at 5 before it expired.
C15_ExpiryResets ==
    [][ /\ \A k \in Keys :
            /\ kv'[k] # Absent => kv'[k].ttl \in 1..60
            /\ (ClockStep /\ kv[k] # Absent) =>
                IF SinceWrite(k) + TickStep >= 60
                THEN kv'[k] = Absent
                ELSE kv'[k] = [kv[k] EXCEPT !.ttl = @ - TickStep]
        /\ \A r \in Reqs :
            LET k == rateLimitKey(req[r].fromPhoneNumber)
            IN  /\ (Gets(r) /\ req'[r].rlFault = "none" /\ kv[k] = Absent) =>
                    /\ req'[r].currentCount = 0
                    /\ ~req'[r].shouldRateLimit
                    /\ req'[r].pc = "rl_put"
                /\ (Puts(r) /\ req'[r].rlFault = "none"
                            /\ req[r].currentCount = 0) =>
                    /\ kv'[k] = [value |-> <<"1">>, ttl |-> 60]
                    /\ ~Replied(req'[r], MsgRateLimited)
      ]_vars

\* the counter expired at 5 and the sender's next message has passed and
\* stored 1 with 60 seconds to live
C15_Witness ==
    \E r \in Reqs :
        LET s == req[r].fromPhoneNumber
        IN  /\ s \in Senders
            /\ hist[s].lapsedFull
            /\ req[r].puts = 1 /\ req[r].rlFault = "none"
            /\ PassedRateLimit(req[r])
            /\ kv[rateLimitKey(s)] = [value |-> <<"1">>, ttl |-> 60]

\* the entity the rule gives for each of the five letters
Entity(c) ==
    CASE c = "<" -> <<"&", "l", "t", ";">>
      [] c = ">" -> <<"&", "g", "t", ";">>
      [] c = "&" -> <<"&", "a", "m", "p", ";">>
      [] c = "'" -> <<"&", "a", "p", "o", "s", ";">>
      [] c = "\"" -> <<"&", "q", "u", "o", "t", ";">>

Entities == {Entity(c) : c \in {"<", ">", "&", "'", "\""}}

\* t continues at position i with the text e
StartsAt(t, i, e) ==
    i + Len(e) - 1 <= Len(t) /\ SubSeq(t, i, i + Len(e) - 1) = e

\* the letters of t one by one, each of the five replaced by its entity
RECURSIVE ByRule(_)
ByRule(t) ==
    IF t = <<>> THEN <<>>
    ELSE (IF Head(t) \in {"<", ">", "&", "'", "\""}
          THEN Entity(Head(t)) ELSE <<Head(t)>>) \o ByRule(Tail(t))

\* C17: escapeXml replaces < by &lt;, > by &gt;, & by &amp;, ' by &apos; and
\* " by &quot;, keeps every other letter, in order, and gives the empty text
\* for null or undefined; so what createTwimlResponse puts between <Message>
\* and </Message> has no raw <, >, ' or " and every & in it starts one of
\* the five entities.
C17_EscapeXml ==
    xml.at = "returned" =>
        /\ xml.escaped = (IF xml.given = NullSeq THEN <<>>
                          ELSE ByRule(xml.given))
        /\ xml.body = TwimlPrefix \o xml.escaped \o TwimlSuffix
        /\ LET inner == SubSeq(xml.body, Len(TwimlPrefix) + 1,
                               Len(xml.body) - Len(TwimlSuffix))
           IN  \A i \in 1..Len(inner) :
                /\ inner[i] \notin {"<", ">", "'", "\""}
                /\ inner[i] = "&" =>
                        \E e \in Entities : StartsAt(inner, i, e)

\* the text &<" came back as &amp;&lt;&quot;
C17_Witness ==
    /\ xml.at = "returned"
    /\ xml.given = <<"&", "<", "\"">>
    /\ xml.escaped = <<"&", "a", "m", "p", ";", "&", "l", "t", ";",
                       "&", "q", "u", "o", "t", ";">>

\* C18: while a sender's counter neither expires nor fails, at most 5 of
\* that sender's requests pass the rate-limit step, however the requests
\* overlap.
C18_AtMostFivePass ==
    \A s \in Senders :
        hist[s].passed # Disturbed => hist[s].passed <= RateLimitThreshold

\* C19: a sender is told the download was already delivered only if a request
\* of that sender was answered with the download link.
C19_AlreadyOnlyAfterLink ==
    \A s \in Senders : hist[s].already => hist[s].link

\* a well-formed message of sender s enters fetch as invocation r
Send(slot, sender) ==
    /\ Start(slot)
    /\ req'[slot].pc = "rl_get"
    /\ req'[slot].fromPhoneNumber = sender

\* the calls of the stores settle, responses are delivered, the clock of the
\* counter store advances, and a sender keeps sending
ExpiryFairness ==
    /\ Fairness
    /\ WF_vars(Tick)
    /\ \A o \in Reqs : WF_vars(Finish(o))
    /\ \A o \in Reqs : \A p \in Senders : SF_vars(Send(o, p))

ExpirySpec == FairInit /\ [][Next]_vars /\ ExpiryFairness

\* no call of the counter store has failed for an invocation at hand
NoCounterFailure == \A r \in Reqs : req[r].rlFault = "none"

\* an invocation for s has read a count below the threshold and goes on to
\* write it
AcceptedAgain(sender) ==
    /\ Counter(kv, sender) < RateLimitThreshold
    /\ \E r \in Reqs :
        /\ req[r].fromPhoneNumber = sender
        /\ req[r].pc = "rl_put"
        /\ ~req[r].shouldRateLimit

\* C20: as long as the counter store does not fail, the clock advances and
\* the sender keeps sending, a sender whose counter stands at 5 is later not
\* rate-limited: the rate-limited requests do not write the counter, so they
\* do not put off its expiry.
C20_AcceptedAgain ==
    \A p \in Senders :
        []NoCounterFailure =>
            ((Counter(kv, p) = RateLimitThreshold) ~> AcceptedAgain(p))

\* the counter of s expired at the threshold and the next request of s has
\* read it as absent
C20_Witness ==
    \E s \in Senders :
        /\ hist[s].lapsedFull
        /\ kv[rateLimitKey(s)] = Absent
        /\ AcceptedAgain(s)
        /\ NoCounterFailure

====
